---- MODULE Spec2Model ----
(***************************************************************************)
(* kindr: LocalAngularVelocity and the conversions from a rotation and its *)
(* time derivative to the local angular velocity                           *)
(* (rotations/include/kindr/rotations/eigen/LocalAngularVelocity.hpp).     *)
(*                                                                         *)
(* Scalars (PrimType_) are modelled exactly: a scalar is a pair <<n, d>>,  *)
(* the rational n/d in lowest terms with d > 0.  The three values with     *)
(* d = 0 are the results floating point gives to a division by zero:       *)
(* <<1,0>> is +inf, <<-1,0>> is -inf and <<0,0>> is NaN.  Rounding and     *)
(* the finite range of float/double are not modelled.                      *)
(*                                                                         *)
(* An angle handed to sin/cos is known by its sine and cosine, a record    *)
(* [sin, cos] with rational entries (the radian value of such an angle is  *)
(* irrational unless it is 0).                                             *)
(***************************************************************************)
EXTENDS Integers, Sequences, FiniteSets, TLC

VARIABLES kind, rotation, derivative, libm, other, w, ret, calls

vars == <<kind, rotation, derivative, libm, other, w, ret, calls>>

\* ------------------------------------------------------------------ bounds
\* rates (derivative components, operand components) range over -MaxRate..MaxRate
MaxRate == 1
\* rotation-vector components range over -1..MaxComp
MaxComp == 2
\* number of accumulating calls (+=, -=, setZero) made on one object
MaxCalls == 3

\* ------------------------------------------------------------ PrimType_
RECURSIVE GCD(_, _)
GCD(a, b) == IF b = 0 THEN a ELSE GCD(b, a % b)

Abs(n) == IF n < 0 THEN -n ELSE n

Sgn(n) == IF n < 0 THEN -1 ELSE IF n = 0 THEN 0 ELSE 1

\* n/d in lowest terms; a zero denominator keeps only the sign of n
Frac(n, d) ==
  IF d = 0 THEN <<Sgn(n), 0>>
  ELSE LET g == GCD(Abs(n), Abs(d))
           s == IF d < 0 THEN -1 ELSE 1
       IN  <<(s * n) \div g, (s * d) \div g>>

I(n) == <<n, 1>>

IsNaN(x) == x = <<0, 0>>

IsFinite(x) == x[2] # 0

Neg(x) == <<-x[1], x[2]>>

\* x * y; inf * 0 and anything * NaN are NaN
Mul(x, y) == Frac(x[1] * y[1], x[2] * y[2])

\* x + y; inf - inf and anything + NaN are NaN
Add(x, y) ==
  IF IsFinite(x) /\ IsFinite(y) THEN Frac(x[1] * y[2] + y[1] * x[2], x[2] * y[2])
  ELSE IF IsNaN(x) \/ IsNaN(y) THEN <<0, 0>>
  ELSE IF IsFinite(y) THEN x
  ELSE IF IsFinite(x) THEN y
  ELSE IF x = y THEN x ELSE <<0, 0>>

Sub(x, y) == Add(x, Neg(y))

\* x / y; a finite nonzero x over 0 is an infinity, 0/0 is NaN (the zero is +0)
Div(x, y) == Mul(x, Frac(y[2], y[1]))

\* the square root of a scalar that is the square of a rational
Sqrt(x) ==
  LET rn == CHOOSE r \in 0..x[1] : r * r = x[1]
      rd == CHOOSE r \in 1..x[2] : r * r = x[2]
  IN  Frac(rn, rd)

IsSquare(n) == \E r \in 0..n : r * r = n

\* ------------------------------------------------- vectors and matrices
Vec3(a, b, c) == <<a, b, c>>

Zero3 == <<I(0), I(0), I(0)>>

\* sum of a[i]*b[i], accumulated from the left
Dot(a, b) ==
  IF Len(a) = 3 THEN Add(Add(Mul(a[1], b[1]), Mul(a[2], b[2])), Mul(a[3], b[3]))
  ELSE Add(Add(Add(Mul(a[1], b[1]), Mul(a[2], b[2])), Mul(a[3], b[3])), Mul(a[4], b[4]))

Col(M, j) == [i \in 1..Len(M) |-> M[i][j]]

Transpose(M) == [j \in 1..Len(M[1]) |-> Col(M, j)]

MatVec(M, v) == [i \in 1..Len(M) |-> Dot(M[i], v)]

MatMul(A, B) == [i \in 1..Len(A) |-> [j \in 1..Len(B[1]) |-> Dot(A[i], Col(B, j))]]

Scale(k, v) == [i \in 1..Len(v) |-> Mul(k, v[i])]

VecAdd(a, b) == [i \in 1..Len(a) |-> Add(a[i], b[i])]

VecSub(a, b) == [i \in 1..Len(a) |-> Sub(a[i], b[i])]

IsFiniteVec(v) == \A i \in 1..Len(v) : IsFinite(v[i])

Mul3(a, b, c) == Mul(Mul(a, b), c)

Add3(a, b, c) == Add(Add(a, b), c)

\* ------------------------------------------- collaborators outside src/
\* kindr/quaternions: Quaternion::vector(), the quaternion as a 4x1 matrix.
\* H_bar below is [-q_v | w*Id - skew(q_v)], the matrix of the quaternion
\* kinematics w = 2*H_bar*dq for dq = (w, x, y, z): its first column meets the
\* scalar part.
vector(q) == <<q.w, q.x, q.y, q.z>>

\* kindr/linear_algebra: the vector v of a skew matrix S, S*u = v x u
getVectorFromSkewMatrix(S) == <<S[3][2], S[1][3], S[2][1]>>

\* kindr/linear_algebra: the matrix S with S*u = v x u
getSkewMatrixFromVector(v) ==
  << <<I(0), Neg(v[3]), v[2]>>,
     <<v[3], I(0), Neg(v[1])>>,
     <<Neg(v[2]), v[1], I(0)>> >>

\* RotationMatrix::inverted(): the inverse of a rotation matrix is its transpose
inverted(R) == Transpose(R)

\* Eigen: the Euclidean norm
norm(v) == Sqrt(Dot(v, v))

\* <cmath> on an angle known by its sine and cosine
sin(a) == a.sin

cos(a) == a.cos

\* ---------------------------------------------------- LocalAngularVelocity
\* LocalAngularVelocity(): Base(Base::Zero())
LocalAngularVelocity == Zero3

\* LocalAngularVelocity(x, y, z)
LocalAngularVelocityXYZ(x, y, z) == Vec3(x, y, z)

\* operator+=: the new components and the object the returned reference names
PlusAssign(this, o) == [value |-> VecAdd(this, o), ret |-> "this"]

\* operator-= with the += of operator+= left in it
MinusAssign_Adds(this, o) == [value |-> VecAdd(this, o), ret |-> "this"]

\* operator-=
MinusAssign(this, o) == [value |-> VecSub(this, o), ret |-> "this"]

\* setZero()
setZero(this) == [value |-> Zero3, ret |-> "this"]

\* ------------------------------------------ RotationDiffConversionTraits
\* H_bar with the sign of the last entry of its first row lost
H_bar_SignSlip(rquat) ==
  << <<Neg(rquat.x), rquat.w, rquat.z, rquat.y>>,
     <<Neg(rquat.y), Neg(rquat.z), rquat.w, rquat.x>>,
     <<Neg(rquat.z), rquat.y, Neg(rquat.x), rquat.w>> >>

H_bar(rquat) ==
  << <<Neg(rquat.x), rquat.w, rquat.z, Neg(rquat.y)>>,
     <<Neg(rquat.y), Neg(rquat.z), rquat.w, rquat.x>>,
     <<Neg(rquat.z), rquat.y, Neg(rquat.x), rquat.w>> >>

\* the quaternion conversion without its factor 2.0
ConvertRotationQuaternion_NoFactor(rquat, rquatdiff) ==
  MatVec(<< <<Neg(rquat.x), rquat.w, rquat.z, Neg(rquat.y)>>,
            <<Neg(rquat.y), Neg(rquat.z), rquat.w, rquat.x>>,
            <<Neg(rquat.z), rquat.y, Neg(rquat.x), rquat.w>> >>,
         vector(rquatdiff))

\* RotationQuaternionDiff, RotationQuaternion: 2.0*H_bar*rquatdiff.vector()
ConvertRotationQuaternion(rquat, rquatdiff) ==
  MatVec([i \in 1..3 |-> Scale(I(2), H_bar(rquat)[i])], vector(rquatdiff))

\* R*dR in place of R*dR'
ActiveSkewMatrix_NoTranspose(rotationMatrix, rotationMatrixDiff) ==
  MatMul(rotationMatrix, rotationMatrixDiff)

\* the argument of getVectorFromSkewMatrix in the active matrix conversion
ActiveSkewMatrix(rotationMatrix, rotationMatrixDiff) ==
  MatMul(rotationMatrix, Transpose(rotationMatrixDiff))

\* RotationMatrixDiff<ACTIVE>, RotationMatrix<ACTIVE>
ConvertRotationMatrixActive(rotationMatrix, rotationMatrixDiff) ==
  getVectorFromSkewMatrix(ActiveSkewMatrix(rotationMatrix, rotationMatrixDiff))

\* RotationMatrixDiff<PASSIVE>, RotationMatrix<PASSIVE>
ConvertRotationMatrixPassive(rotationMatrix, rotationMatrixDiff) ==
  getVectorFromSkewMatrix(MatMul(inverted(rotationMatrix), rotationMatrixDiff))

\* the angle-axis conversion with the axis in place of the axis rate in its
\* sin term
ConvertAngleAxis_AxisForRate(angleAxis, angleAxisDiff) ==
  VecAdd(VecAdd(Scale(angleAxisDiff.angle, angleAxis.axis),
                Scale(sin(angleAxis.angle), angleAxis.axis)),
         Scale(Sub(I(1), cos(angleAxis.angle)),
               MatVec(getSkewMatrixFromVector(angleAxis.axis), angleAxisDiff.axis)))

\* the angle-axis conversion with sin and cos exchanged
ConvertAngleAxis_SinCosSwapped(angleAxis, angleAxisDiff) ==
  VecAdd(VecAdd(Scale(angleAxisDiff.angle, angleAxis.axis),
                Scale(cos(angleAxis.angle), angleAxisDiff.axis)),
         Scale(Sub(I(1), sin(angleAxis.angle)),
               MatVec(getSkewMatrixFromVector(angleAxis.axis), angleAxisDiff.axis)))

\* AngleAxisDiff, AngleAxis
ConvertAngleAxis(angleAxis, angleAxisDiff) ==
  VecAdd(VecAdd(Scale(angleAxisDiff.angle, angleAxis.axis),
                Scale(sin(angleAxis.angle), angleAxisDiff.axis)),
         Scale(Sub(I(1), cos(angleAxis.angle)),
               MatVec(getSkewMatrixFromVector(angleAxis.axis), angleAxisDiff.axis)))

\* t2 with a guard on the zero magnitude
RotationVectorT2_Guarded(v) == IF v = I(0) THEN I(0) ELSE Div(I(1), Mul3(v, v, v))

\* t2 as 1.0/(v*v)
RotationVectorT2_Square(v) == Div(I(1), Mul(v, v))

\* t2 of the rotation-vector conversion: 1.0/(v*v*v)
RotationVectorT2(v) == Div(I(1), Mul3(v, v, v))

\* RotationVectorDiff, RotationVector; lm is what sin and cos return for the norm
ConvertRotationVector(rotationVector, rotationVectorDiff, lm) ==
  LET v == norm(<<rotationVector.x, rotationVector.y, rotationVector.z>>)
      v1 == rotationVector.x
      v2 == rotationVector.y
      v3 == rotationVector.z
      dv1 == rotationVectorDiff.x
      dv2 == rotationVectorDiff.y
      dv3 == rotationVectorDiff.z
      t2 == RotationVectorT2(v)
      t3 == cos(lm)
      t4 == sin(lm)
      t5 == Mul(v1, v1)
      t6 == Mul(v1, v2)
      t7 == Mul(v, v)
      t8 == Mul(t4, t7)
      t9 == Mul(v2, v2)
      t10 == Mul(v2, v3)
      t11 == Mul(v1, v3)
      t12 == Mul(t3, v2)
      t13 == Mul(v3, v3)
      w1 == Add3(Mul3(dv3, t2, Sub(Mul(v, Sub(Add(t11, t12), v2)), Mul3(t4, v1, v3))),
                 Mul3(dv1, t2, Add(Sub(t8, Mul(t4, t5)), Mul(t5, v))),
                 Mul3(dv2, t2, Sub(Mul(v, Sub(Add(t6, v3), Mul(t3, v3))), Mul3(t4, v1, v2))))
      w2 == Add3(Mul3(dv1, t2, Sub(Mul(v, Add(Sub(t6, v3), Mul(t3, v3))), Mul3(t4, v1, v2))),
                 Mul3(dv2, t2, Add(Sub(t8, Mul(t4, t9)), Mul(t9, v))),
                 Mul3(dv3, t2, Sub(Mul(v, Sub(Add(t10, v1), Mul(t3, v1))), Mul3(t4, v2, v3))))
      w3 == Add3(Mul3(dv2, t2, Sub(Mul(v, Add(Sub(t10, v1), Mul(t3, v1))), Mul3(t4, v2, v3))),
                 Mul3(dv1, t2, Sub(Mul(v, Add(Sub(t11, t12), v2)), Mul3(t4, v1, v3))),
                 Mul3(dv3, t2, Add(Sub(t8, Mul(t4, t13)), Mul(t13, v))))
  IN  Vec3(w1, w2, w3)

\* the ZYX conversion with sin(phi) and cos(phi) exchanged
ConvertEulerAnglesZyx_SinCosSwapped(eulerAngles, eulerAnglesDiff) ==
  LET theta == eulerAngles.pitch
      dphi == eulerAnglesDiff.roll
      dtheta == eulerAnglesDiff.pitch
      dpsi == eulerAnglesDiff.yaw
      t2 == cos(eulerAngles.roll)
      t3 == sin(eulerAngles.roll)
      t4 == cos(theta)
  IN  Vec3(Sub(dphi, Mul(dpsi, sin(theta))),
           Add(Mul(dtheta, t3), Mul3(dpsi, t2, t4)),
           Add(Mul(Neg(dtheta), t2), Mul3(dpsi, t3, t4)))

\* the ZYX conversion with tan(theta) = sin(theta)/cos(theta) in its first
\* component, as in the inverse map from angular velocity to Euler rates
ConvertEulerAnglesZyx_Tangent(eulerAngles, eulerAnglesDiff) ==
  LET theta == eulerAngles.pitch
      dphi == eulerAnglesDiff.roll
      dtheta == eulerAnglesDiff.pitch
      dpsi == eulerAnglesDiff.yaw
      t2 == sin(eulerAngles.roll)
      t3 == cos(eulerAngles.roll)
      t4 == cos(theta)
  IN  Vec3(Sub(dphi, Mul(dpsi, Div(sin(theta), t4))),
           Add(Mul(dtheta, t3), Mul3(dpsi, t2, t4)),
           Add(Mul(Neg(dtheta), t2), Mul3(dpsi, t3, t4)))

\* EulerAnglesZyxDiff, EulerAnglesZyx
ConvertEulerAnglesZyx(eulerAngles, eulerAnglesDiff) ==
  LET phi == eulerAngles.roll
      theta == eulerAngles.pitch
      dphi == eulerAnglesDiff.roll
      dtheta == eulerAnglesDiff.pitch
      dpsi == eulerAnglesDiff.yaw
      t2 == sin(phi)
      t3 == cos(phi)
      t4 == cos(theta)
  IN  Vec3(Sub(dphi, Mul(dpsi, sin(theta))),
           Add(Mul(dtheta, t3), Mul3(dpsi, t2, t4)),
           Add(Mul(Neg(dtheta), t2), Mul3(dpsi, t3, t4)))

\* EulerAnglesXyzDiff, EulerAnglesXyz
ConvertEulerAnglesXyz(eulerAngles, eulerAnglesDiff) ==
  LET beta == eulerAngles.pitch
      gamma == eulerAngles.yaw
      dalpha == eulerAnglesDiff.roll
      dbeta == eulerAnglesDiff.pitch
      dgamma == eulerAnglesDiff.yaw
      t2 == cos(gamma)
      t3 == cos(beta)
      t4 == sin(gamma)
  IN  Vec3(Add(Mul(dbeta, t4), Mul3(dalpha, t2, t3)),
           Sub(Mul(dbeta, t2), Mul3(dalpha, t3, t4)),
           Add(dgamma, Mul(dalpha, sin(beta))))

\* ------------------------------------------------------------- the inputs
Q(n, d) == Frac(n, d)

Rates == {I(r) : r \in -MaxRate..MaxRate}

RateVecs == {<<a, b, c>> : a \in Rates, b \in Rates, c \in Rates}

Angle(s, c) == [sin |-> s, cos |-> c]

Angle0 == Angle(I(0), I(1))

AnglePlus90 == Angle(I(1), I(0))

AngleMinus90 == Angle(I(-1), I(0))

\* atan(3/4)
AngleAtan == Angle(Q(3, 5), Q(4, 5))

Angles == {Angle0, AnglePlus90, AngleMinus90, AngleAtan}

Quat(qw, qx, qy, qz) == [w |-> qw, x |-> qx, y |-> qy, z |-> qz]

IdentityQuaternion == Quat(I(1), I(0), I(0), I(0))

UnitQuaternions ==
  { IdentityQuaternion,
    Quat(I(0), I(1), I(0), I(0)),
    Quat(Q(1, 2), Q(1, 2), Q(1, 2), Q(1, 2)),
    Quat(Q(4, 5), I(0), Q(3, 5), I(0)) }

\* the rate of the identity quaternion that matches roll/pitch/yaw rates
\* (0.1, 0.2, 0.3): half of each, in the vector part
TestQuaternionDiff == Quat(I(0), Q(1, 20), Q(1, 10), Q(3, 20))

QuaternionDiffs == [w : Rates, x : Rates, y : Rates, z : Rates] \cup {TestQuaternionDiff}

IdentityMatrix ==
  << <<I(1), I(0), I(0)>>, <<I(0), I(1), I(0)>>, <<I(0), I(0), I(1)>> >>

RotationMatrices ==
  { IdentityMatrix,
    << <<I(0), I(-1), I(0)>>, <<I(1), I(0), I(0)>>, <<I(0), I(0), I(1)>> >>,
    << <<I(0), I(0), I(1)>>, <<I(1), I(0), I(0)>>, <<I(0), I(1), I(0)>> >>,
    << <<Q(4, 5), Q(-3, 5), I(0)>>, <<Q(3, 5), Q(4, 5), I(0)>>, <<I(0), I(0), I(1)>> >> }

\* the rates of a rotation matrix R: R*S and S*R for a skew S, and one matrix
\* that is the rate of no rotation
RotationMatrixDiffs(R) ==
  {MatMul(R, getSkewMatrixFromVector(r)) : r \in RateVecs}
    \cup {MatMul(getSkewMatrixFromVector(r), R) : r \in RateVecs}
    \cup {IdentityMatrix}

Axes == {<<I(1), I(0), I(0)>>, <<I(0), I(0), I(1)>>, <<Q(3, 5), I(0), Q(4, 5)>>}

AngleAxes == [angle : Angles, axis : Axes]

AngleAxisDiffs == [angle : Rates, axis : RateVecs]

RVec(a, b, c) == [x |-> a, y |-> b, z |-> c]

\* rotation vectors with integer components and an integer norm
RotationVectors ==
  { RVec(I(a), I(b), I(c)) : <<a, b, c>> \in
      {t \in (-1..MaxComp) \X (-1..MaxComp) \X (-1..MaxComp) :
         IsSquare(t[1] * t[1] + t[2] * t[2] + t[3] * t[3])} }

RotationVectorDiffs(rv) ==
  {RVec(r[1], r[2], r[3]) : r \in RateVecs}
    \cup {RVec(Mul(k, rv.x), Mul(k, rv.y), Mul(k, rv.z)) : k \in Rates}

\* what sin and cos return for the norm a: sin(0) = 0 and cos(0) = 1; the sine
\* and cosine of a nonzero rational are irrational, and stand as any of these
LibmOf(a) ==
  IF a = I(0) THEN {Angle0} ELSE {AngleAtan, Angle(Q(-4, 5), Q(3, 5))}

EulerAngles == [roll : Angles, pitch : Angles, yaw : {Angle0, AnglePlus90}]

EDiff(a, b, c) == [roll |-> a, pitch |-> b, yaw |-> c]

\* roll/pitch/yaw rates (0.1, 0.2, 0.3) and (1, 2, 3)
TestEulerDiffs == {EDiff(Q(1, 10), Q(1, 5), Q(3, 10)), EDiff(I(1), I(2), I(3))}

EulerAnglesDiffs == [roll : Rates, pitch : Rates, yaw : Rates] \cup TestEulerDiffs

Operands == {LocalAngularVelocityXYZ(r[1], r[2], r[3]) : r \in RateVecs}

\* ------------------------------------------------------------------ state
\* kind: the (rotation, derivative) types of the inputs, which pick the
\* specialization of RotationDiffConversionTraits, or "LocalAngularVelocity"
\* when the input is the operand of += and -=.
\* w: the components of the object; ret: the object named by the reference
\* the last call returned; calls: the calls made on the object so far.
Start(k, r, d, lm, o) ==
  /\ kind = k
  /\ rotation = r
  /\ derivative = d
  /\ libm = lm
  /\ other = o
  /\ w = LocalAngularVelocity
  /\ ret = "none"
  /\ calls = <<>>

Init ==
  \/ \E r \in UnitQuaternions, d \in QuaternionDiffs :
       Start("RotationQuaternion", r, d, Angle0, Zero3)
  \/ \E r \in RotationMatrices : \E d \in RotationMatrixDiffs(r) :
       Start("RotationMatrixActive", r, d, Angle0, Zero3)
  \/ \E r \in RotationMatrices : \E d \in RotationMatrixDiffs(r) :
       Start("RotationMatrixPassive", r, d, Angle0, Zero3)
  \/ \E r \in AngleAxes, d \in AngleAxisDiffs :
       Start("AngleAxis", r, d, Angle0, Zero3)
  \/ \E r \in RotationVectors : \E d \in RotationVectorDiffs(r) :
       \E lm \in LibmOf(norm(<<r.x, r.y, r.z>>)) :
         Start("RotationVector", r, d, lm, Zero3)
  \/ \E r \in EulerAngles, d \in EulerAnglesDiffs :
       Start("EulerAnglesZyx", r, d, Angle0, Zero3)
  \/ \E r \in EulerAngles, d \in EulerAnglesDiffs :
       Start("EulerAnglesXyz", r, d, Angle0, Zero3)
  \/ \E o \in Operands :
       Start("LocalAngularVelocity", <<>>, <<>>, Angle0, o)

\* LocalAngularVelocity(rotation, other): Base(convert(rotation, other))
Construct(k, value) ==
  /\ kind = k
  /\ calls = <<>>
  /\ w' = value
  /\ calls' = <<"LocalAngularVelocity">>
  /\ UNCHANGED <<kind, rotation, derivative, libm, other, ret>>

FromRotationQuaternion ==
  Construct("RotationQuaternion", ConvertRotationQuaternion(rotation, derivative))

FromRotationMatrixActive ==
  Construct("RotationMatrixActive", ConvertRotationMatrixActive(rotation, derivative))

FromRotationMatrixPassive ==
  Construct("RotationMatrixPassive", ConvertRotationMatrixPassive(rotation, derivative))

FromAngleAxis ==
  Construct("AngleAxis", ConvertAngleAxis(rotation, derivative))

FromRotationVector ==
  Construct("RotationVector", ConvertRotationVector(rotation, derivative, libm))

FromEulerAnglesZyx ==
  Construct("EulerAnglesZyx", ConvertEulerAnglesZyx(rotation, derivative))

FromEulerAnglesXyz ==
  Construct("EulerAnglesXyz", ConvertEulerAnglesXyz(rotation, derivative))

\* a call of +=, -= or setZero on the object
Call(name, result) ==
  /\ kind = "LocalAngularVelocity"
  /\ Len(calls) < MaxCalls
  /\ w' = result.value
  /\ ret' = result.ret
  /\ calls' = Append(calls, name)
  /\ UNCHANGED <<kind, rotation, derivative, libm, other>>

OperatorPlusAssign == Call("+=", PlusAssign(w, other))

OperatorMinusAssign == Call("-=", MinusAssign(w, other))

SetZero == Call("setZero", setZero(w))

Next ==
  \/ FromRotationQuaternion
  \/ FromRotationMatrixActive
  \/ FromRotationMatrixPassive
  \/ FromAngleAxis
  \/ FromRotationVector
  \/ FromEulerAnglesZyx
  \/ FromEulerAnglesXyz
  \/ OperatorPlusAssign
  \/ OperatorMinusAssign
  \/ SetZero

Spec == Init /\ [][Next]_vars

Converted == calls = <<"LocalAngularVelocity">>

\* ------------------------------------------------------------- the claims
IdentityEuler == [roll |-> Angle0, pitch |-> Angle0, yaw |-> Angle0]

ZeroMatrix == <<Zero3, Zero3, Zero3>>

ZeroDerivative ==
  CASE kind = "RotationQuaternion" -> derivative = Quat(I(0), I(0), I(0), I(0))
    [] kind \in {"RotationMatrixActive", "RotationMatrixPassive"} -> derivative = ZeroMatrix
    [] kind = "AngleAxis" -> derivative = [angle |-> I(0), axis |-> Zero3]
    [] kind = "RotationVector" -> derivative = RVec(I(0), I(0), I(0))
    [] kind \in {"EulerAnglesZyx", "EulerAnglesXyz"} -> derivative = EDiff(I(0), I(0), I(0))
    [] OTHER -> FALSE

RotationNorm == norm(<<rotation.x, rotation.y, rotation.z>>)

\* C1: a conversion of a derivative whose components are all 0, at a rotation
\* that is not singular (a rotation vector of magnitude other than 0), returns
\* the angular velocity (0, 0, 0), for each of the seven conversions.
C1_ZeroDerivative ==
  (Converted /\ ZeroDerivative /\ (kind = "RotationVector" => RotationNorm # I(0)))
    => w = Zero3

C1_Witness ==
  /\ Converted
  /\ kind = "RotationVector"
  /\ rotation = RVec(I(1), I(2), I(2))
  /\ ZeroDerivative
  /\ w = Zero3

Half(x) == Mul(Q(1, 2), x)

Twice(x) == Mul(I(2), x)

TwoRow(a1, a2, a3, a4, d) ==
  Mul(I(2), Add(Add(Add(Mul(a1, d[1]), Mul(a2, d[2])), Mul(a3, d[3])), Mul(a4, d[4])))

\* 2*H*d for the rows (-x, w, z, -y), (-y, -z, w, x), (-z, y, -x, w) of q
TwoHd(q, d) ==
  << TwoRow(Neg(q.x), q.w, q.z, Neg(q.y), d),
     TwoRow(Neg(q.y), Neg(q.z), q.w, q.x, d),
     TwoRow(Neg(q.z), q.y, Neg(q.x), q.w, d) >>

C4_EulerZyxIdentity ==
  (Converted /\ kind = "EulerAnglesZyx" /\ rotation = IdentityEuler)
    => w = <<derivative.roll, derivative.pitch, derivative.yaw>>

C4_Witness ==
  /\ Converted
  /\ kind = "EulerAnglesZyx"
  /\ rotation = IdentityEuler
  /\ derivative = EDiff(I(1), I(2), I(3))
  /\ w = <<I(1), I(2), I(3)>>

\* the object was zero (constructed, or setZero) before its last two calls
ZeroBeforeLastTwo ==
  /\ Len(calls) >= 2
  /\ (Len(calls) = 2 \/ calls[Len(calls) - 2] = "setZero")

AddThenSubtract ==
  /\ ZeroBeforeLastTwo
  /\ calls[Len(calls) - 1] = "+="
  /\ calls[Len(calls)] = "-="

\* C5: on a zero angular velocity (default constructed or setZero), += v and
\* then -= v leave the three components 0, and += and -= return the object
\* they changed.
C5_AccumulationRoundTrip ==
  /\ AddThenSubtract => w = Zero3
  /\ (calls # <<>> /\ calls[Len(calls)] \in {"+=", "-="}) => ret = "this"

C5_Witness ==
  /\ calls = <<"setZero", "+=", "-=">>
  /\ other = <<I(1), I(-1), I(1)>>
  /\ w = Zero3
  /\ ret = "this"

PlusInfinity == <<1, 0>>

\* C6: at the rotation vector (0, 0, 0) the conversion divides 1 by a*a*a = 0
\* and no component of what it returns is finite, whatever the derivative.
C6_RotationVectorSingularity ==
  (Converted /\ kind = "RotationVector" /\ rotation = RVec(I(0), I(0), I(0)))
    => /\ RotationVectorT2(RotationNorm) = PlusInfinity
       /\ \A i \in 1..3 : ~IsFinite(w[i])

C6_Witness ==
  /\ Converted
  /\ kind = "RotationVector"
  /\ rotation = RVec(I(0), I(0), I(0))
  /\ derivative = RVec(I(1), I(0), I(-1))
  /\ w = <<(<<0, 0>>), (<<0, 0>>), (<<0, 0>>)>>

GimbalLock ==
  /\ Converted
  /\ kind \in {"EulerAnglesZyx", "EulerAnglesXyz"}
  /\ rotation.pitch \in {AnglePlus90, AngleMinus90}

\* C7 as stated: at pitch +90 or -90 degrees the Euler conversions return a
\* result that is not a finite angular velocity.
C7_Original == GimbalLock => ~IsFiniteVec(w)

\* C7, amended: at pitch +90 or -90 degrees (sin = +1 or -1, cos = 0) and
\* finite rates the Euler conversions return a finite angular velocity: the
\* formulas divide by nothing, and the terms with cos(pitch) are 0.
C7_GimbalLockFinite ==
  GimbalLock =>
    /\ IsFiniteVec(w)
    /\ kind = "EulerAnglesZyx" =>
         w = << Sub(derivative.roll, Mul(derivative.yaw, rotation.pitch.sin)),
                Mul(derivative.pitch, rotation.roll.cos),
                Neg(Mul(derivative.pitch, rotation.roll.sin)) >>
    /\ kind = "EulerAnglesXyz" =>
         w = << Mul(derivative.pitch, rotation.yaw.sin),
                Mul(derivative.pitch, rotation.yaw.cos),
                Add(derivative.yaw, Mul(derivative.roll, rotation.pitch.sin)) >>

C7_Witness ==
  /\ GimbalLock
  /\ kind = "EulerAnglesZyx"
  /\ rotation = [roll |-> AngleAtan, pitch |-> AnglePlus90, yaw |-> Angle0]
  /\ derivative = EDiff(I(1), I(1), I(1))
  /\ w = <<I(0), Q(4, 5), Q(-3, 5)>>

IsSkew(M) == \A i \in 1..3 : \A j \in 1..3 : M[i][j] = Neg(M[j][i])

\* dR is R*S or S*R for a skew-symmetric S
ConsistentRate(R, dR) ==
  \E r \in RateVecs :
    \/ dR = MatMul(R, getSkewMatrixFromVector(r))
    \/ dR = MatMul(getSkewMatrixFromVector(r), R)

\* C8: for a rotation matrix R and a rate dR = R*S or S*R with S skew, the
\* matrix R*dR^T of the active conversion is skew-symmetric, and reading the
\* mirrored entries (negated) gives the vector the conversion returns.
C8_ActiveSkewSymmetric ==
  (Converted /\ kind = "RotationMatrixActive" /\ ConsistentRate(rotation, derivative))
    => LET M == ActiveSkewMatrix(rotation, derivative)
       IN  /\ IsSkew(M)
           /\ w = <<Neg(M[2][3]), Neg(M[3][1]), Neg(M[1][2])>>

C8_Witness ==
  /\ Converted
  /\ kind = "RotationMatrixActive"
  /\ rotation = << <<Q(4, 5), Q(-3, 5), I(0)>>, <<Q(3, 5), Q(4, 5), I(0)>>, <<I(0), I(0), I(1)>> >>
  /\ derivative = MatMul(getSkewMatrixFromVector(<<I(1), I(0), I(1)>>), rotation)
  /\ w = <<I(-1), I(0), I(-1)>>

\* C9: at angle 0 (sin = 0, cos = 1) the angle-axis conversion returns the
\* axis times the angle rate, whatever the axis rate.
C9_AngleAxisZeroAngle ==
  (Converted /\ kind = "AngleAxis" /\ rotation.angle = Angle0)
    => w = Scale(derivative.angle, rotation.axis)

C9_Witness ==
  /\ Converted
  /\ kind = "AngleAxis"
  /\ rotation = [angle |-> Angle0, axis |-> <<Q(3, 5), I(0), Q(4, 5)>>]
  /\ derivative = [angle |-> I(-1), axis |-> <<I(1), I(1), I(-1)>>]
  /\ w = <<Q(-3, 5), I(0), Q(-4, 5)>>

Cross(a, b) ==
  << Sub(Mul(a[2], b[3]), Mul(a[3], b[2])),
     Sub(Mul(a[3], b[1]), Mul(a[1], b[3])),
     Sub(Mul(a[1], b[2]), Mul(a[2], b[1])) >>

\* C10: for a rotation vector v of magnitude other than 0 and a derivative
\* parallel to it (dv = k*v), the rotation-vector conversion returns dv,
\* whatever sin and cos of the magnitude are.
C10_RotationVectorParallel ==
  (Converted /\ kind = "RotationVector" /\ RotationNorm # I(0)
     /\ Cross(<<rotation.x, rotation.y, rotation.z>>,
              <<derivative.x, derivative.y, derivative.z>>) = Zero3)
    => w = <<derivative.x, derivative.y, derivative.z>>

C10_Witness ==
  /\ Converted
  /\ kind = "RotationVector"
  /\ rotation = RVec(I(1), I(2), I(2))
  /\ derivative = RVec(I(-1), I(-2), I(-2))
  /\ libm = AngleAtan
  /\ w = <<I(-1), I(-2), I(-2)>>

====
